---- MODULE Spec2Model ----
(***************************************************************************)
(* Weekly production planning of two machine types (A and B) on one shared *)
(* production line: the mixed-integer program of main.py, the solve call   *)
(* and the printing of the result.                                         *)
(*                                                                         *)
(* The program's state is the pyomo model: the indexed variables prodA,    *)
(* prodB, storA, storB, deci, chan (no value before the solve), the        *)
(* solver's terminal status and what the script has printed.  The solver   *)
(* is modelled by what it is: a search that assigns the variables week by  *)
(* week, keeping exactly the assignments that satisfy the constraints of   *)
(* the constraint list, and that terminates "optimal" on a complete        *)
(* assignment of minimal objective, or "infeasible" when there is none.    *)
(* A reachable state with pc = "solve" is therefore an assignment of       *)
(* weeks 0..k-1 that satisfies every constraint over those weeks; with     *)
(* k = N+1 it is a feasible plan.                                          *)
(*                                                                         *)
(* Money is counted in 1/CostScale of a currency unit so that the holding  *)
(* costs 0.00375*225 and 0.195/52*310 are integers.                        *)
(***************************************************************************)
EXTENDS Integers, Sequences, FiniteSets, TLC

VARIABLES inst,      \* the demand series and policy constants of this run
          pc,        \* "solve", "report", "print", "raised", "done"
          status,    \* the solver's terminal status ("none" before it ends)
          k,         \* the next week index the solver assigns (0..N+1)
          prodA, prodB, storA, storB, deci, chan,   \* the model's variables
          objective, \* the value printed as "Cost = "
          reads      \* what the script has read from the model after the solve

vars == <<inst, pc, status, k, prodA, prodB, storA, storB, deci, chan,
          objective, reads>>

(***************************************************************************)
(* Bounds of the model.                                                    *)
(***************************************************************************)
\* Weeks planned in the scaled-down demand series.
NumWeeks == 2
\* The scaled-down demand series draw each week's demand from {0, MaxDemand}.
MaxDemand == 5
\* How far beyond a product's capacity the production candidates reach.
Excess == 1

(***************************************************************************)
(* Constants of main.py.                                                   *)
(***************************************************************************)
capacityA == 100
capacityB == 80
bigM == 1000
safetyNum == 4
safetyDen == 5
initStorA == 125
initStorB == 143
initDeci == 0
lastWeek == 9
\* The value of a pyomo Var that no solution has been loaded into (None).
NoValue == -1
\* The result of a minimisation over an empty feasible set.
Infeasible == -1

CostScale == 160
unitCostA == 225 * CostScale
unitCostB == 310 * CostScale
holdCostA == (375 * 225 * CostScale) \div 100000
holdCostB == (195 * 310 * CostScale) \div (1000 * 52)
changeoverCost == 500 * CostScale

consA == [i \in 0..lastWeek |-> <<0, 55, 55, 44, 0, 45, 45, 36, 35, 35>>[i + 1]]
consB == [i \in 0..lastWeek |-> <<0, 38, 38, 30, 0, 48, 48, 58, 57, 58>>[i + 1]]

Binary == {0, 1}

(***************************************************************************)
(* Instances: the demand series and the policy constants of one run.       *)
(* qtyA and qtyB are the finite sets of production quantities the search   *)
(* tries for each product; both reach beyond the product's capacity.  For  *)
(* main.py's own nine-week instance they are nothing, a full week's        *)
(* capacity, or more than the capacity; for the minimal scenario they are  *)
(* these and the quantities next to the demand; for the scaled-down        *)
(* instances they are every quantity from 0 to beyond the capacity.        *)
(***************************************************************************)
\* main.py as written.
SourceInstance ==
    [N |-> lastWeek, consA |-> consA, consB |-> consB,
     capacityA |-> capacityA, capacityB |-> capacityB, bigM |-> bigM,
     safetyNum |-> safetyNum, safetyDen |-> safetyDen,
     initStorA |-> initStorA, initStorB |-> initStorB, initDeci |-> initDeci,
     qtyA |-> {0, capacityA} \cup {capacityA + e : e \in 1..Excess},
     qtyB |-> {0, capacityB} \cup {capacityB + e : e \in 1..Excess}]

\* The minimal two-week scenario: A is ordered in week 1, B in week 2.
MinimalInstance ==
    [N |-> 2, consA |-> [i \in 0..2 |-> <<0, 10, 0>>[i + 1]],
     consB |-> [i \in 0..2 |-> <<0, 0, 10>>[i + 1]],
     capacityA |-> 20, capacityB |-> 20, bigM |-> 20,
     safetyNum |-> 0, safetyDen |-> 1,
     initStorA |-> 0, initStorB |-> 0, initDeci |-> 0,
     qtyA |-> {0, 9, 10, 11, 20} \cup {20 + e : e \in 1..Excess},
     qtyB |-> {0, 9, 10, 11, 20} \cup {20 + e : e \in 1..Excess}]

\* The minimal scenario with a first-week demand above capacity plus stock.
SpikeInstance ==
    [MinimalInstance EXCEPT !.consA = [i \in 0..2 |-> <<0, 30, 0>>[i + 1]]]

\* Scaled-down runs of main.py: its big-M and safety fraction, small
\* capacities and stocks, every demand series over {0, MaxDemand}, either
\* initial line state.
DemandSeries == [1..NumWeeks -> {0, MaxDemand}]

SmallInstance(cA, cB, d0) ==
    [N |-> NumWeeks,
     consA |-> [i \in 0..NumWeeks |-> IF i = 0 THEN 0 ELSE cA[i]],
     consB |-> [i \in 0..NumWeeks |-> IF i = 0 THEN 0 ELSE cB[i]],
     capacityA |-> 3, capacityB |-> 2, bigM |-> bigM,
     safetyNum |-> safetyNum, safetyDen |-> safetyDen,
     initStorA |-> 6, initStorB |-> 6, initDeci |-> d0,
     qtyA |-> 0..(3 + Excess), qtyB |-> 0..(2 + Excess)]

SmallInstances ==
    {SmallInstance(cA, cB, d0) : cA \in DemandSeries, cB \in DemandSeries, d0 \in Binary}

Instances == {SourceInstance, MinimalInstance, SpikeInstance} \cup SmallInstances

week(m) == 1..m.N
weekZ(m) == 0..m.N

(***************************************************************************)
(* The constraints of the constraint list, one operator per conList.add.   *)
(***************************************************************************)
\* Mutant: the stock variables declared over all the integers.
NonNegativeIntegers_Integers(x) == TRUE

\* domain=NonNegativeIntegers
NonNegativeIntegers(x) == x >= 0

InitDeciCon(m, d) == d = m.initDeci
InitStorACon(m, s) == s = m.initStorA
InitStorBCon(m, s) == s = m.initStorB

\* Mutants: the capacity constraints written with the big-M constant.
CapacityConA_BigM(m, pA) == pA <= m.bigM
CapacityConB_BigM(m, pB) == pB <= m.bigM

CapacityConA(m, pA) == pA <= m.capacityA
CapacityConB(m, pB) == pB <= m.capacityB

\* Mutant: the safety-stock constraint of A left out.
SafetyConA_Omitted(m, i, sAprev) == TRUE

SafetyConA(m, i, sAprev) == m.safetyDen * sAprev >= m.safetyNum * m.consA[i]
SafetyConB(m, i, sBprev) == m.safetyDen * sBprev >= m.safetyNum * m.consB[i]

\* Mutants: the balance of A without the week's demand; the balance of B
\* with the production subtracted.
BalanceA_NoDemand(m, i, sAprev, pA) == sAprev + pA
BalanceB_SignSlip(m, i, sBprev, pB) == sBprev - pB - m.consB[i]

\* The right-hand side of the inventory balance equation.
BalanceA(m, i, sAprev, pA) == sAprev + pA - m.consA[i]
BalanceB(m, i, sBprev, pB) == sBprev + pB - m.consB[i]

\* Mutant: the line-state constraint of B copied from A's.
BigMConB_Copied(M, pB, d) == pB <= M * (1 - d)

BigMConA(M, pA, d) == pA <= M * (1 - d)
BigMConB(M, pB, d) == pB <= M * d

ChanConUp(d, dPrev, c) == d - dPrev <= c
ChanConDown(d, dPrev, c) == dPrev - d <= c

\* Every constraint the loop body adds for week i, with big-M constants MA
\* and MB in the two line-state constraints.  x = <<pA, pB, d, c>>.
WeekCons(m, MA, MB, i, sAprev, sBprev, dPrev, x) ==
    LET pA == x[1]
        pB == x[2]
        d  == x[3]
        c  == x[4]
    IN  /\ CapacityConA(m, pA)
        /\ CapacityConB(m, pB)
        /\ SafetyConA(m, i, sAprev)
        /\ SafetyConB(m, i, sBprev)
        /\ NonNegativeIntegers(BalanceA(m, i, sAprev, pA))
        /\ NonNegativeIntegers(BalanceB(m, i, sBprev, pB))
        /\ BigMConA(MA, pA, d)
        /\ BigMConB(MB, pB, d)
        /\ ChanConUp(d, dPrev, c)
        /\ ChanConDown(d, dPrev, c)

\* The values the search tries for week i: prodA, prodB, deci, chan.
Candidates(m) == m.qtyA \X m.qtyB \X Binary \X Binary

(***************************************************************************)
(* The objective.                                                          *)
(***************************************************************************)
\* Mutant: the objective without the changeover term.
WeekCost_NoChangeover(pA, pB, sA, sB, c) ==
    pA * unitCostA + pB * unitCostB + sA * holdCostA + sB * holdCostB

WeekCost(pA, pB, sA, sB, c) ==
    pA * unitCostA + pB * unitCostB + sA * holdCostA + sB * holdCostB
      + changeoverCost * c

RECURSIVE CostUpTo(_, _, _, _, _, _)
CostUpTo(i, pA, pB, sA, sB, ch) ==
    IF i = 0 THEN 0
    ELSE CostUpTo(i - 1, pA, pB, sA, sB, ch)
           + WeekCost(pA[i], pB[i], sA[i], sB[i], ch[i])

\* mdl.totalCost() on the current values.
totalCost == CostUpTo(inst.N, prodA, prodB, storA, storB, chan)

SetMin(S) == CHOOSE v \in S : \A w \in S : v <= w
SetMax(S) == CHOOSE v \in S : \A w \in S : v >= w

\* Mutant: sense = maximize.
Sense_Maximize(S) == SetMax(S)

\* sense = minimize
Sense(S) == SetMin(S)

\* The cheapest way to each end of week i: the set of <<storA[i], storB[i],
\* deci[i], cost>> over the assignments of weeks 0..i that satisfy the
\* constraints, cost being the best objective among those that end alike.
\* (The constraints and the cost of the weeks after i read nothing else of
\* weeks 0..i, so the optimum over complete plans is the best cost in
\* Frontier(m, m.N).)
RECURSIVE Frontier(_, _)
Frontier(m, i) ==
    IF i = 0 THEN {<<m.initStorA, m.initStorB, m.initDeci, 0>>}
    ELSE LET prev == Frontier(m, i - 1)
             step(f) ==
                 {<<BalanceA(m, i, f[1], x[1]), BalanceB(m, i, f[2], x[2]), x[3],
                    f[4] + WeekCost(x[1], x[2], BalanceA(m, i, f[1], x[1]),
                                    BalanceB(m, i, f[2], x[2]), x[4])>> :
                    x \in {y \in Candidates(m) :
                             WeekCons(m, m.bigM, m.bigM, i, f[1], f[2], f[3], y)}}
             succ == UNION {step(f) : f \in prev}
             ends == {<<t[1], t[2], t[3]>> : t \in succ}
         IN  {<<e[1], e[2], e[3],
                Sense({t[4] : t \in {u \in succ : <<u[1], u[2], u[3]>> = e}})>> :
                e \in ends}

\* The solver's result on instance m: the optimal objective, or Infeasible.
Solve(m) ==
    LET last == Frontier(m, m.N)
    IN  IF last = {} THEN Infeasible ELSE Sense({t[4] : t \in last})

\* What the solver proves about each instance.
Optimum == {<<m, Solve(m)>> : m \in Instances}

OptimumOf(m) == (CHOOSE p \in Optimum : p[1] = m)[2]

(***************************************************************************)
(* The state machine.                                                      *)
(***************************************************************************)
Init ==
    /\ inst \in Instances
    /\ pc = "solve"
    /\ status = "none"
    /\ k = 0
    /\ prodA = [i \in week(inst) |-> NoValue]
    /\ prodB = [i \in week(inst) |-> NoValue]
    /\ chan = [i \in week(inst) |-> NoValue]
    /\ storA = [i \in weekZ(inst) |-> NoValue]
    /\ storB = [i \in weekZ(inst) |-> NoValue]
    /\ deci = [i \in weekZ(inst) |-> NoValue]
    /\ objective = NoValue
    /\ reads = {}

\* The values the search tries for a week-0 stock whose initial condition
\* is s0.
InitialStocks(s0) == {0} \cup {s0 + e : e \in 0..Excess}

\* The solver assigns the week-0 variables under the initial conditions.
AssignInitial ==
    /\ pc = "solve"
    /\ k = 0
    /\ \E d \in Binary, sA \in InitialStocks(inst.initStorA),
          sB \in InitialStocks(inst.initStorB) :
          /\ InitDeciCon(inst, d)
          /\ InitStorACon(inst, sA)
          /\ InitStorBCon(inst, sB)
          /\ deci' = [deci EXCEPT ![0] = d]
          /\ storA' = [storA EXCEPT ![0] = sA]
          /\ storB' = [storB EXCEPT ![0] = sB]
    /\ k' = 1
    /\ UNCHANGED <<inst, pc, status, prodA, prodB, chan, objective, reads>>

\* The solver assigns week k under the constraints of the loop body.
AssignWeek ==
    /\ pc = "solve"
    /\ k \in week(inst)
    /\ \E x \in Candidates(inst) :
          /\ WeekCons(inst, inst.bigM, inst.bigM, k,
                      storA[k - 1], storB[k - 1], deci[k - 1], x)
          /\ prodA' = [prodA EXCEPT ![k] = x[1]]
          /\ prodB' = [prodB EXCEPT ![k] = x[2]]
          /\ deci' = [deci EXCEPT ![k] = x[3]]
          /\ chan' = [chan EXCEPT ![k] = x[4]]
          /\ storA' = [storA EXCEPT ![k] = BalanceA(inst, k, storA[k - 1], x[1])]
          /\ storB' = [storB EXCEPT ![k] = BalanceB(inst, k, storB[k - 1], x[2])]
    /\ k' = k + 1
    /\ UNCHANGED <<inst, pc, status, objective, reads>>

\* The solver ends on a complete assignment of minimal objective.
SolveOptimal ==
    /\ pc = "solve"
    /\ k = inst.N + 1
    /\ totalCost = OptimumOf(inst)
    /\ status' = "optimal"
    /\ pc' = "report"
    /\ UNCHANGED <<inst, k, prodA, prodB, storA, storB, deci, chan, objective, reads>>

\* The solver ends without a solution: no value is loaded into the model.
SolveInfeasible ==
    /\ pc = "solve"
    /\ OptimumOf(inst) = Infeasible
    /\ status' = "infeasible"
    /\ pc' = "report"
    /\ k' = 0
    /\ prodA' = [i \in week(inst) |-> NoValue]
    /\ prodB' = [i \in week(inst) |-> NoValue]
    /\ chan' = [i \in week(inst) |-> NoValue]
    /\ storA' = [i \in weekZ(inst) |-> NoValue]
    /\ storB' = [i \in weekZ(inst) |-> NoValue]
    /\ deci' = [i \in weekZ(inst) |-> NoValue]
    /\ UNCHANGED <<inst, objective, reads>>

\* print("Cost = ", mdl.totalCost()): evaluates the objective whatever the
\* status; the evaluation raises when a variable has no value.
PrintCost ==
    /\ pc = "report"
    /\ reads' = reads \cup {"objective"}
    /\ IF \E i \in week(inst) : prodA[i] = NoValue
       THEN pc' = "raised" /\ UNCHANGED objective
       ELSE pc' = "print" /\ objective' = totalCost
    /\ UNCHANGED <<inst, status, k, prodA, prodB, storA, storB, deci, chan>>

\* The table of prodA, prodB, storA, storB, deci, chan.
PrintPlan ==
    /\ pc = "print"
    /\ reads' = reads \cup {"assignment"}
    /\ pc' = "done"
    /\ UNCHANGED <<inst, status, k, prodA, prodB, storA, storB, deci, chan, objective>>

Next ==
    \/ AssignInitial
    \/ AssignWeek
    \/ SolveOptimal
    \/ SolveInfeasible
    \/ PrintCost
    \/ PrintPlan

Spec == Init /\ [][Next]_vars

\* The weeks 1..N the solver has assigned.
Assigned == {i \in week(inst) : i < k}

(***************************************************************************)
(* Properties.                                                             *)
(***************************************************************************)
\* A complete assignment that satisfies every constraint: a feasible plan.
Complete == pc = "solve" /\ k = inst.N + 1

\* C1: in every assignment that satisfies the constraints, each assigned
\* week's end stock of A and of B is the previous week's stock plus the
\* week's production minus the week's demand.
C1_InventoryBalance ==
    \A i \in Assigned :
        /\ storA[i] = storA[i - 1] + prodA[i] - inst.consA[i]
        /\ storB[i] = storB[i - 1] + prodB[i] - inst.consB[i]

\* A feasible plan of main.py's instance that builds A and builds B.
C1_Witness ==
    /\ Complete
    /\ inst = SourceInstance
    /\ \E i \in Assigned : prodA[i] > 0 /\ inst.consA[i] > 0
    /\ \E i \in Assigned : prodB[i] > 0 /\ inst.consB[i] > 0

\* C2: in every assignment that satisfies the constraints, no week builds
\* both products: a week that builds A has line state 0 and a week that
\* builds B has line state 1.
C2_OneProductPerWeek ==
    \A i \in Assigned :
        /\ prodA[i] > 0 => deci[i] = 0
        /\ prodB[i] > 0 => deci[i] = 1
        /\ ~(prodA[i] > 0 /\ prodB[i] > 0)

\* A feasible plan with a week that builds A, a week that builds B and a
\* week that builds nothing with the line set to B.
C2_Witness ==
    /\ Complete
    /\ \E i \in Assigned : prodA[i] > 0
    /\ \E i \in Assigned : prodB[i] > 0
    /\ \E i \in Assigned : prodA[i] = 0 /\ prodB[i] = 0 /\ deci[i] = 1

\* C3: in every plan the solver returns as optimal, chan[i] is 1 exactly in
\* the weeks whose line state differs from the previous week's, and 0 in
\* the others.
C3_ChangeoverExact ==
    status = "optimal" =>
        \A i \in week(inst) : chan[i] = IF deci[i] # deci[i - 1] THEN 1 ELSE 0

\* An optimal plan with a week that changes the line and a week that does not.
C3_Witness ==
    /\ status = "optimal"
    /\ \E i \in week(inst) : chan[i] = 1
    /\ \E i \in week(inst) : chan[i] = 0

\* C4: in every assignment that satisfies the constraints, the stock carried
\* into each assigned week is at least the safety fraction of that week's
\* demand, for A and for B.
C4_SafetyStock ==
    \A i \in Assigned :
        /\ inst.safetyDen * storA[i - 1] >= inst.safetyNum * inst.consA[i]
        /\ inst.safetyDen * storB[i - 1] >= inst.safetyNum * inst.consB[i]

\* A feasible plan under the safety fraction 0.8 with a week whose carried
\* stock of A is at least 80% of the week's demand and less than all of it.
C4_Witness ==
    /\ Complete
    /\ inst.safetyNum = safetyNum /\ inst.safetyDen = safetyDen
    /\ \E i \in Assigned : storA[i - 1] < inst.consA[i]

\* C5: in every assignment that satisfies the constraints, each assigned
\* week's production of A is within 0..capacityA and of B within
\* 0..capacityB, whatever the week's line state.
C5_Capacity ==
    \A i \in Assigned :
        /\ 0 <= prodA[i] /\ prodA[i] <= inst.capacityA
        /\ 0 <= prodB[i] /\ prodB[i] <= inst.capacityB

\* A feasible plan of main.py's instance with a week of 100 A and a week of
\* 80 B.
C5_Witness ==
    /\ Complete
    /\ inst = SourceInstance
    /\ \E i \in Assigned : prodA[i] = capacityA
    /\ \E i \in Assigned : prodB[i] = capacityB

\* C6: the script reads the objective or the assignment only when the
\* solver's status is optimal.
C6_NoReadUnlessOptimal == reads # {} => status = "optimal"

\* C7: on the minimal two-week instance every plan the solver returns as
\* optimal builds 10 A in week 1 with the line on A, 10 B in week 2 with
\* the line on B, nothing else, with chan[1] = 0 and chan[2] = 1, and the
\* printed objective is the cost of exactly that.
C7_MinimalScenario ==
    (inst = MinimalInstance /\ status = "optimal") =>
        /\ prodA[1] = 10 /\ prodB[1] = 0 /\ deci[1] = 0 /\ chan[1] = 0
        /\ prodA[2] = 0 /\ prodB[2] = 10 /\ deci[2] = 1 /\ chan[2] = 1
        /\ deci[0] = 0
        /\ objective # NoValue =>
              objective = 10 * unitCostA + 10 * unitCostB + changeoverCost

\* The minimal instance solved and its cost printed.
C7_Witness ==
    /\ inst = MinimalInstance
    /\ status = "optimal"
    /\ pc = "done"
    /\ objective # NoValue

\* C8: whatever the weeks assigned so far, a candidate for the next week
\* satisfies the week's constraints with the instance's big-M constant
\* exactly when it satisfies them with the big-M constant of each
\* line-state constraint replaced by that product's capacity.
C8_TightBigM ==
    (pc = "solve" /\ k \in week(inst)) =>
        \A x \in Candidates(inst) :
            WeekCons(inst, inst.bigM, inst.bigM, k,
                     storA[k - 1], storB[k - 1], deci[k - 1], x)
              <=> WeekCons(inst, inst.capacityA, inst.capacityB, k,
                           storA[k - 1], storB[k - 1], deci[k - 1], x)

\* A state of a run with big-M 1000 in which one candidate for the next week
\* is accepted with positive production and another, within capacity, is
\* refused by a line-state constraint alone.
C8_Witness ==
    /\ pc = "solve" /\ k \in week(inst)
    /\ inst.bigM = bigM
    /\ \E x \in Candidates(inst) :
          /\ x[1] > 0
          /\ WeekCons(inst, inst.bigM, inst.bigM, k,
                      storA[k - 1], storB[k - 1], deci[k - 1], x)
    /\ \E x \in Candidates(inst) :
          /\ x[1] > 0 /\ x[3] = 1
          /\ WeekCons(inst, inst.bigM, inst.bigM, k,
                      storA[k - 1], storB[k - 1], deci[k - 1], <<0, x[2], x[3], x[4]>>)
          /\ CapacityConA(inst, x[1])
          /\ ~WeekCons(inst, inst.bigM, inst.bigM, k,
                       storA[k - 1], storB[k - 1], deci[k - 1], x)

\* C9: in every assignment that satisfies the constraints, the stock
\* carried into each assigned week plus the week's production covers the
\* week's demand, for A and for B.
C9_DemandCovered ==
    \A i \in Assigned :
        /\ storA[i - 1] + prodA[i] >= inst.consA[i]
        /\ storB[i - 1] + prodB[i] >= inst.consB[i]

\* A feasible plan with a week whose demand for A exceeds the stock carried
\* into it, so that the week's production is what covers it.
C9_Witness ==
    /\ Complete
    /\ \E i \in Assigned : storA[i - 1] < inst.consA[i] /\ prodA[i] > 0

\* C10: main.py's own instance has a feasible plan: the solver's result on
\* it is an objective value, and it never ends infeasible on it.
C10_SourceFeasible ==
    inst = SourceInstance =>
        /\ OptimumOf(SourceInstance) # Infeasible
        /\ status # "infeasible"

\* A feasible plan of main.py's instance: weeks 0..9 assigned under every
\* constraint.
C10_Witness ==
    /\ Complete
    /\ inst = SourceInstance
    /\ \A i \in weekZ(inst) : storA[i] >= 0 /\ storB[i] >= 0 /\ deci[i] \in Binary
    /\ \A i \in week(inst) : prodA[i] >= 0 /\ prodB[i] >= 0 /\ chan[i] \in Binary

====
